---- MODULE Spec2Model ----
(***************************************************************************)
(* A model of the protobuf wire codec: the varint / zigzag functions of    *)
(* src/src/varint.rs, the wire types and tags of src/src/wire_type.rs and  *)
(* src/src/lib.rs, the Reader of src/src/reader.rs and the Writer of       *)
(* src/src/writer.rs.                                                      *)
(*                                                                         *)
(* Representation of numbers.  A fixed-width integer (u32, i32, u64, i64)  *)
(* is the set of the positions of its one bits (bit 0 is the least         *)
(* significant): a subset of 0..31 or of 0..63.  A signed integer is its   *)
(* two's-complement bit pattern, so an `as` cast between types of the      *)
(* same width keeps the set, while a narrowing cast intersects it with the *)
(* narrower range and a sign extension adds the upper bits.  A byte of a   *)
(* buffer is a number in 0..255, offsets and lengths (usize) are natural   *)
(* numbers; usize is taken to be 64 bits wide, so that an offset plus a    *)
(* 32-bit length never wraps.                                              *)
(***************************************************************************)
EXTENDS Integers, Sequences, FiniteSets

VARIABLES
  call,       \* codec: the last call of a function of varint.rs: its name, its
              \* argument, and the value the argument was encoded from
  result,     \* codec: what that call returned
  w_buffer,   \* Writer.buffer
  w_stack,    \* Writer.stack: sequence of <<fork_pos, head_pos>>
  w_ret,      \* what the last Writer method returned, [op, err, val]
  h_levels,   \* history: what was written at each nesting level
  h_last,     \* history: the frame the last call finalized
  h_forks,    \* history: fork() calls since construction or the last reset()
  h_ldelims,  \* history: successful ldelim() calls since then
  n_calls,    \* number of Writer methods called
  n_writes,   \* number of typed encode methods called
  r_buffer,   \* Reader.buffer
  r_pos,      \* Reader.pos
  r_ret       \* what the last Reader method (or tag function) returned

codec_vars  == <<call, result>>
writer_vars == <<w_buffer, w_stack, w_ret, h_levels, h_last, h_forks, h_ldelims,
                 n_calls, n_writes>>
reader_vars == <<r_buffer, r_pos, r_ret>>
vars == <<call, result, w_buffer, w_stack, w_ret, h_levels, h_last, h_forks,
          h_ldelims, n_calls, n_writes, r_buffer, r_pos, r_ret>>

----------------------------------------------------------------------------
(* Bit patterns *)

\* The bit pattern of a natural number below 2^31.
BitsOf(n) == {i \in 0..30 : (n \div (2^i)) % 2 = 1}

\* The natural number of a pattern within bits 0..30.
RECURSIVE NatOf(_)
NatOf(bits) ==
  IF bits = {} THEN 0
  ELSE LET i == CHOOSE x \in bits : TRUE IN 2^i + NatOf(bits \ {i})

\* value << k at width w: the bits shifted out at the top are lost.
Shl(v, k, w) == {i + k : i \in v} \cap (0..(w - 1))

\* value >> k on an unsigned type (logical).
Shr(v, k) == {i - k : i \in {j \in v : j >= k}}

\* value >> k on a signed type of width w (arithmetic: the sign bit is copied in).
Sar(v, k, w) == Shr(v, k) \cup (IF (w - 1) \in v THEN (w - k)..(w - 1) ELSE {})

Xor(a, b) == (a \ b) \cup (b \ a)

\* -(x) for x in {0, 1} at width w: 0 or the pattern of -1.
NegBit(x, w) == IF 0 \in x THEN 0..(w - 1) ELSE {}

\* The little-endian bytes of a pattern of n bytes (to_le_bytes).
to_le_bytes(v, n) == [i \in 1..n |-> NatOf(Shr(v, 8 * (i - 1)) \cap (0..7))]

\* The pattern of little-endian bytes (from_le_bytes).
from_le_bytes(bytes) ==
  UNION {Shl(BitsOf(bytes[i]), 8 * (i - 1), 8 * Len(bytes)) : i \in 1..Len(bytes)}

----------------------------------------------------------------------------
(* src/src/varint.rs *)

\* One turn of the encoder's loop, then the rest.
RECURSIVE encode_varint_loop(_)
encode_varint_loop(val) ==
  IF val \subseteq 0..6
    THEN <<NatOf(val)>>
    ELSE <<NatOf(val \cap (0..6)) + 128>> \o encode_varint_loop(Shr(val, 7))

encode_varint32(value) == encode_varint_loop(value)

encode_varint64(value) == encode_varint_loop(value)

EndOfBuffer == "Unexpected end of buffer"
TooLong == "Varint too long"

\* A decoder that forgets to mask the continuation bit out of the byte.
RECURSIVE decode_varint_loop_nomask(_, _, _, _, _)
decode_varint_loop_nomask(buffer, offset, res, shift, w) ==
  IF offset >= Len(buffer)
    THEN [err |-> EndOfBuffer, offset |-> offset, value |-> {}]
    ELSE LET byte == buffer[offset + 1] IN
      IF shift >= w
        THEN [err |-> TooLong, offset |-> offset + 1, value |-> {}]
        ELSE LET r == res \cup Shl(BitsOf(byte), shift, w) IN
          IF byte < 128
            THEN [err |-> "", offset |-> offset + 1, value |-> r]
            ELSE decode_varint_loop_nomask(buffer, offset + 1, r, shift + 7, w)

\* The decoder's loop at width w; offset is the caller's cursor, which the
\* loop advances in place, so a failure returns it where the loop left it.
RECURSIVE decode_varint_loop(_, _, _, _, _)
decode_varint_loop(buffer, offset, res, shift, w) ==
  IF offset >= Len(buffer)
    THEN [err |-> EndOfBuffer, offset |-> offset, value |-> {}]
    ELSE LET byte == buffer[offset + 1] IN
      IF shift >= w
        THEN [err |-> TooLong, offset |-> offset + 1, value |-> {}]
        ELSE LET r == res \cup Shl(BitsOf(byte) \cap (0..6), shift, w) IN
          IF byte < 128
            THEN [err |-> "", offset |-> offset + 1, value |-> r]
            ELSE decode_varint_loop(buffer, offset + 1, r, shift + 7, w)

decode_varint32(buffer, offset) == decode_varint_loop(buffer, offset, {}, 0, 32)

decode_varint64(buffer, offset) == decode_varint_loop(buffer, offset, {}, 0, 64)

\* An encoder that shifts the sign out with a logical shift.
zigzag_encode32_logical(value) == Xor(Shl(value, 1, 32), Shr(value, 31))

zigzag_encode32(value) == Xor(Shl(value, 1, 32), Sar(value, 31, 32))

zigzag_decode32(value) == Xor(Shr(value, 1), NegBit(value \cap {0}, 32))

zigzag_encode64(value) == Xor(Shl(value, 1, 64), Sar(value, 63, 64))

zigzag_decode64(value) == Xor(Shr(value, 1), NegBit(value \cap {0}, 64))

----------------------------------------------------------------------------
(* The codec's functions, called on sample values *)

\* 2^k - 1 and 2^k for every k of the width, and a few mixed patterns.
Samples(w) ==
  {0..(k - 1) : k \in 0..w} \cup {{k} : k \in 0..(w - 1)}
    \cup {BitsOf(300), BitsOf(150), {0, w - 1}, {7, w - 1}, (0..(w - 1)) \ {0}}

CodecInit ==
  /\ call = [fn |-> "none", arg |-> {}, origin |-> {}]
  /\ result = {}

Call_encode_varint32 ==
  \E v \in Samples(32) :
    /\ call' = [fn |-> "encode_varint32", arg |-> v, origin |-> v]
    /\ result' = encode_varint32(v)

Call_encode_varint64 ==
  \E v \in Samples(64) :
    /\ call' = [fn |-> "encode_varint64", arg |-> v, origin |-> v]
    /\ result' = encode_varint64(v)

\* Decode, from offset 0, the bytes the last call encoded.
Call_decode_varint32 ==
  /\ call.fn = "encode_varint32"
  /\ call' = [fn |-> "decode_varint32", arg |-> result, origin |-> call.arg]
  /\ result' = decode_varint32(result, 0)

Call_decode_varint64 ==
  /\ call.fn = "encode_varint64"
  /\ call' = [fn |-> "decode_varint64", arg |-> result, origin |-> call.arg]
  /\ result' = decode_varint64(result, 0)

Call_zigzag_encode32 ==
  \E v \in Samples(32) :
    /\ call' = [fn |-> "zigzag_encode32", arg |-> v, origin |-> v]
    /\ result' = zigzag_encode32(v)

Call_zigzag_encode64 ==
  \E v \in Samples(64) :
    /\ call' = [fn |-> "zigzag_encode64", arg |-> v, origin |-> v]
    /\ result' = zigzag_encode64(v)

\* Decode what the last call encoded.
Call_zigzag_decode32 ==
  /\ call.fn = "zigzag_encode32"
  /\ call' = [fn |-> "zigzag_decode32", arg |-> result, origin |-> call.arg]
  /\ result' = zigzag_decode32(result)

Call_zigzag_decode64 ==
  /\ call.fn = "zigzag_encode64"
  /\ call' = [fn |-> "zigzag_decode64", arg |-> result, origin |-> call.arg]
  /\ result' = zigzag_decode64(result)

----------------------------------------------------------------------------
(* src/src/writer.rs: what each typed encode method appends *)

\* value as i64 of an i32: sign extension to 64 bits.
sign_extend_64(value) == value \cup (IF 31 \in value THEN 32..63 ELSE {})

\* value as f32 of an f64, for a value that is zero or a normal number an
\* f32 holds exactly (the inputs below): the sign, the exponent rebiased from
\* 1023 to 127, the top 23 bits of the fraction.
f64_as_f32(value) ==
  LET sign == IF 63 \in value THEN {31} ELSE {}
      exp  == NatOf(Shr(value, 52) \cap (0..10))
      frac == Shr(value, 29) \cap (0..22)
  IN IF value \ {63} = {} THEN sign
     ELSE sign \cup Shl(BitsOf(exp - 1023 + 127), 23, 31) \cup frac

\* The UTF-8 bytes of one Unicode scalar value (String::as_bytes).
utf8_char(cp) ==
  IF cp < 128 THEN <<cp>>
  ELSE IF cp < 2048 THEN <<192 + (cp \div 64), 128 + (cp % 64)>>
  ELSE IF cp < 65536
    THEN <<224 + (cp \div 4096), 128 + ((cp \div 64) % 64), 128 + (cp % 64)>>
    ELSE <<240 + (cp \div 262144), 128 + ((cp \div 4096) % 64),
           128 + ((cp \div 64) % 64), 128 + (cp % 64)>>

\* The UTF-8 bytes of a string, given as the sequence of its scalar values.
RECURSIVE as_bytes(_)
as_bytes(str) ==
  IF str = <<>> THEN <<>> ELSE utf8_char(Head(str)) \o as_bytes(Tail(str))

Writer_uint32(value) == encode_varint32(value)

Writer_int32(value) == encode_varint64(sign_extend_64(value))

Writer_sint32(value) == encode_varint32(zigzag_encode32(value))

Writer_uint64(value) == encode_varint64(value)

Writer_int64(value) == encode_varint64(value)

Writer_sint64(value) == encode_varint64(zigzag_encode64(value))

Writer_bool(value) == <<IF value THEN 1 ELSE 0>>

Writer_fixed32(value) == to_le_bytes(value, 4)

Writer_sfixed32(value) == to_le_bytes(value, 4)

Writer_fixed64(value) == to_le_bytes(value, 8)

Writer_sfixed64(value) == to_le_bytes(value, 8)

Writer_float(value) == to_le_bytes(f64_as_f32(value), 4)

Writer_double(value) == to_le_bytes(value, 8)

Writer_bytes(value) == encode_varint32(BitsOf(Len(value))) \o value

Writer_string(value) ==
  LET bytes == as_bytes(value) IN encode_varint32(BitsOf(Len(bytes))) \o bytes

----------------------------------------------------------------------------
(* src/src/writer.rs: fork, ldelim, finish, reset *)

NoFork == "No fork to delimit"
Panic == "panic"

Placeholder == <<0, 0, 0, 0, 0>>

\* A fork() that records the frame before it appends the placeholder.
Writer_fork_head_first(buffer, stack) ==
  LET head == Len(buffer)
      extended == buffer \o Placeholder
  IN [buffer |-> extended,
      stack  |-> Append(stack, <<head, head>>),
      ret    |-> Len(extended)]

\* The Writer after fork(), and what fork() returns.
Writer_fork(buffer, stack) ==
  LET head == Len(buffer)
      extended == buffer \o Placeholder
  IN [buffer |-> extended,
      stack  |-> Append(stack, <<head, Len(extended)>>),
      ret    |-> Len(extended)]

\* Vec::drain(from..to): the buffer without its bytes at offsets from..to-1.
drain(buffer, from, to) ==
  SubSeq(buffer, 1, from) \o SubSeq(buffer, to + 1, Len(buffer))

\* An ldelim() that leaves the unused placeholder bytes in the buffer.
Writer_ldelim_no_trim(buffer, stack) ==
  IF stack = <<>>
    THEN [err |-> NoFork, buffer |-> buffer, stack |-> stack]
    ELSE
      LET fork_pos == stack[Len(stack)][1]
          head_pos == stack[Len(stack)][2]
          len_bytes == encode_varint32(BitsOf(Len(buffer) - head_pos))
      IN [err |-> "",
          buffer |-> [i \in 1..Len(buffer) |->
                        IF i - 1 >= fork_pos /\ i - 1 < fork_pos + Len(len_bytes)
                          THEN len_bytes[i - fork_pos]
                          ELSE buffer[i]],
          stack |-> SubSeq(stack, 1, Len(stack) - 1)]

\* The Writer after ldelim(), and the error it reports.  A subtraction below
\* zero or a range outside the buffer panics.
Writer_ldelim(buffer, stack) ==
  IF stack = <<>>
    THEN [err |-> NoFork, buffer |-> buffer, stack |-> stack]
    ELSE
      LET fork_pos == stack[Len(stack)][1]
          head_pos == stack[Len(stack)][2]
          popped   == SubSeq(stack, 1, Len(stack) - 1)
      IN IF head_pos > Len(buffer) \/ fork_pos + 5 > Len(buffer)
           THEN [err |-> Panic, buffer |-> buffer, stack |-> popped]
           ELSE
             LET len == Len(buffer) - head_pos
                 len_bytes == encode_varint32(BitsOf(len))
                 len_encoded_len == Len(len_bytes)
                 unused == 5 - len_encoded_len
                 drained == IF unused > 0
                              THEN drain(buffer, fork_pos + len_encoded_len, fork_pos + 5)
                              ELSE buffer
                 patched == [i \in 1..Len(drained) |->
                               IF i - 1 >= fork_pos /\ i - 1 < fork_pos + len_encoded_len
                                 THEN len_bytes[i - fork_pos]
                                 ELSE drained[i]]
             IN [err |-> "", buffer |-> patched, stack |-> popped]

\* What finish() returns: a copy of the buffer.
Writer_finish(buffer) == buffer

\* A reset() that clears the buffer and forgets the stack.
Writer_reset_keeps_stack(buffer, stack) == [buffer |-> <<>>, stack |-> stack]

\* The Writer after reset().
Writer_reset(buffer, stack) == [buffer |-> <<>>, stack |-> <<>>]

----------------------------------------------------------------------------
(* The Writer's methods as steps, with the history of what was written *)

\* The minimal base-128 encoding of a natural number, by arithmetic.
RECURSIVE MinVarint(_)
MinVarint(n) ==
  IF n < 128 THEN <<n>> ELSE <<(n % 128) + 128>> \o MinVarint(n \div 128)

NoFrame == [at |-> 0 - 1, before |-> <<>>, payload |-> <<>>]

WriterInit ==
  /\ w_buffer = <<>>
  /\ w_stack = <<>>
  /\ w_ret = [op |-> "new", err |-> "", val |-> 0]
  /\ h_levels = <<[before |-> <<>>, bytes |-> <<>>]>>
  /\ h_last = NoFrame
  /\ h_forks = 0
  /\ h_ldelims = 0
  /\ n_calls = 0
  /\ n_writes = 0

\* A typed encode method: it appends bytes and returns the Writer.
Encode(op, bytes) ==
  /\ w_buffer' = w_buffer \o bytes
  /\ w_ret' = [op |-> op, err |-> "", val |-> 0]
  /\ h_levels' = [h_levels EXCEPT ![Len(h_levels)].bytes = @ \o bytes]
  /\ h_last' = NoFrame
  /\ UNCHANGED <<w_stack, h_forks, h_ldelims>>

Fork ==
  LET after == Writer_fork(w_buffer, w_stack) IN
  /\ w_buffer' = after.buffer
  /\ w_stack' = after.stack
  /\ w_ret' = [op |-> "fork", err |-> "", val |-> after.ret]
  /\ h_levels' = Append(h_levels, [before |-> w_buffer, bytes |-> <<>>])
  /\ h_last' = NoFrame
  /\ h_forks' = h_forks + 1
  /\ UNCHANGED h_ldelims

\* The history closes the innermost level: its bytes, behind the minimal
\* varint of their number, become bytes of the level around it.
Ldelim ==
  LET after == Writer_ldelim(w_buffer, w_stack)
      n == Len(h_levels)
      inner == h_levels[n].bytes
  IN
  /\ w_buffer' = after.buffer
  /\ w_stack' = after.stack
  /\ w_ret' = [op |-> "ldelim", err |-> after.err, val |-> 0]
  /\ h_ldelims' = IF after.err = "" THEN h_ldelims + 1 ELSE h_ldelims
  /\ IF after.err = "" /\ n > 1
       THEN /\ h_levels' = [SubSeq(h_levels, 1, n - 1) EXCEPT
                              ![n - 1].bytes = @ \o MinVarint(Len(inner)) \o inner]
            /\ h_last' = [at |-> Len(h_levels[n].before),
                          before |-> h_levels[n].before,
                          payload |-> inner]
       ELSE /\ h_last' = NoFrame
            /\ UNCHANGED h_levels
  /\ UNCHANGED h_forks

Finish ==
  /\ w_ret' = [op |-> "finish", err |-> "", val |-> Writer_finish(w_buffer)]
  /\ h_last' = NoFrame
  /\ UNCHANGED <<w_buffer, w_stack, h_levels, h_forks, h_ldelims>>

Reset ==
  LET after == Writer_reset(w_buffer, w_stack) IN
  /\ w_buffer' = after.buffer
  /\ w_stack' = after.stack
  /\ w_ret' = [op |-> "reset", err |-> "", val |-> 0]
  /\ h_levels' = <<[before |-> <<>>, bytes |-> <<>>]>>
  /\ h_last' = NoFrame
  /\ h_forks' = 0
  /\ h_ldelims' = 0

----------------------------------------------------------------------------
(* src/src/wire_type.rs and the tag functions of src/src/lib.rs *)

WT_Varint == 0
WT_Fixed64 == 1
WT_LengthDelimited == 2
WT_StartGroup == 3
WT_EndGroup == 4
WT_Fixed32 == 5

InvalidWireType == "Invalid wire type"
NoGroups == "Groups are not supported"

\* value as u8 of a u32: the low eight bits, as a number.
as_u8(value) == NatOf(value \cap (0..7))

\* WireType::from_u8: an Option, here the empty set or the set of one code.
WireType_from_u8(value) ==
  IF value \in {WT_Varint, WT_Fixed64, WT_LengthDelimited,
                WT_StartGroup, WT_EndGroup, WT_Fixed32}
    THEN {value} ELSE {}

\* wire_type::encode_tag, on a known wire type.
wire_type_encode_tag(field_number, wire_type) ==
  Shl(field_number, 3, 32) \cup BitsOf(wire_type)

\* wire_type::decode_tag: the field number and the Option of the wire type.
wire_type_decode_tag(tag) ==
  <<Shr(tag, 3), WireType_from_u8(as_u8(tag \cap (0..2)))>>

\* lib.rs encode_tag(field_number: u32, wire_type: u32).
encode_tag(field_number, wire_type) ==
  LET wt == WireType_from_u8(as_u8(wire_type)) IN
  IF wt = {}
    THEN [err |-> InvalidWireType, val |-> {}]
    ELSE [err |-> "", val |-> wire_type_encode_tag(field_number, CHOOSE x \in wt : TRUE)]

\* lib.rs decode_tag(tag: u32): an unknown wire type comes back as 255.
decode_tag(tag) ==
  LET d == wire_type_decode_tag(tag) IN
  <<d[1], IF d[2] = {} THEN BitsOf(255) ELSE BitsOf(CHOOSE x \in d[2] : TRUE)>>

----------------------------------------------------------------------------
(* src/src/reader.rs: each method as a function of the buffer and the     *)
(* cursor, giving the error (or ""), the cursor afterwards and the value  *)

InvalidUtf8 == "Invalid UTF-8 string"

\* pos + len > n for a 32-bit len: the buffers here are far shorter than
\* 2^24 bytes, and the 64-bit sum does not wrap.
usize_add_gt(pos, len, n) ==
  IF len \subseteq 0..23 THEN pos + NatOf(len) > n ELSE TRUE

\* value as f64 of an f32: zero, subnormal (normalised), infinity or NaN
\* (quiet), normal.
f32_as_f64(value) ==
  LET sign == IF 31 \in value THEN {63} ELSE {}
      exp  == NatOf(Shr(value, 23) \cap (0..7))
      frac == value \cap (0..22)
      hb   == CHOOSE i \in frac : \A j \in frac : j <= i
  IN IF exp = 0 /\ frac = {} THEN sign
     ELSE IF exp = 0
       THEN sign \cup Shl(BitsOf(hb + 874), 52, 63) \cup Shl(frac \ {hb}, 52 - hb, 52)
     ELSE IF exp = 255
       THEN sign \cup (52..62) \cup Shl(frac, 29, 52)
                 \cup (IF frac = {} THEN {} ELSE {51})
     ELSE sign \cup Shl(BitsOf(exp - 127 + 1023), 52, 63) \cup Shl(frac, 29, 52)

IsCont(b) == b >= 128 /\ b <= 191

\* String::from_utf8 accepts exactly the well-formed UTF-8 byte sequences.
RECURSIVE utf8_valid(_)
utf8_valid(bytes) ==
  IF bytes = <<>> THEN TRUE
  ELSE
    LET b == bytes[1]
        n == Len(bytes)
        rest(k) == SubSeq(bytes, k + 1, n)
    IN
    IF b < 128 THEN utf8_valid(rest(1))
    ELSE IF b >= 194 /\ b <= 223
      THEN n >= 2 /\ IsCont(bytes[2]) /\ utf8_valid(rest(2))
    ELSE IF b = 224
      THEN n >= 3 /\ bytes[2] >= 160 /\ bytes[2] <= 191 /\ IsCont(bytes[3])
           /\ utf8_valid(rest(3))
    ELSE IF (b >= 225 /\ b <= 236) \/ b = 238 \/ b = 239
      THEN n >= 3 /\ IsCont(bytes[2]) /\ IsCont(bytes[3]) /\ utf8_valid(rest(3))
    ELSE IF b = 237
      THEN n >= 3 /\ bytes[2] >= 128 /\ bytes[2] <= 159 /\ IsCont(bytes[3])
           /\ utf8_valid(rest(3))
    ELSE IF b = 240
      THEN n >= 4 /\ bytes[2] >= 144 /\ bytes[2] <= 191 /\ IsCont(bytes[3])
           /\ IsCont(bytes[4]) /\ utf8_valid(rest(4))
    ELSE IF b >= 241 /\ b <= 243
      THEN n >= 4 /\ IsCont(bytes[2]) /\ IsCont(bytes[3]) /\ IsCont(bytes[4])
           /\ utf8_valid(rest(4))
    ELSE IF b = 244
      THEN n >= 4 /\ bytes[2] >= 128 /\ bytes[2] <= 143 /\ IsCont(bytes[3])
           /\ IsCont(bytes[4]) /\ utf8_valid(rest(4))
    ELSE FALSE

\* A varint-backed method: decode at width w, then convert the value.  The
\* decoder is handed the cursor itself, so the cursor is where it left it.
Reader_uint32(buffer, pos) ==
  LET d == decode_varint32(buffer, pos) IN
  [err |-> d.err, pos |-> d.offset, val |-> d.value]

Reader_int32(buffer, pos) ==
  LET d == decode_varint64(buffer, pos) IN
  [err |-> d.err, pos |-> d.offset,
   val |-> IF d.err = "" THEN d.value \cap (0..31) ELSE {}]

Reader_sint32(buffer, pos) ==
  LET d == decode_varint32(buffer, pos) IN
  [err |-> d.err, pos |-> d.offset,
   val |-> IF d.err = "" THEN zigzag_decode32(d.value) ELSE {}]

Reader_uint64(buffer, pos) ==
  LET d == decode_varint64(buffer, pos) IN
  [err |-> d.err, pos |-> d.offset, val |-> d.value]

Reader_int64(buffer, pos) ==
  LET d == decode_varint64(buffer, pos) IN
  [err |-> d.err, pos |-> d.offset, val |-> d.value]

Reader_sint64(buffer, pos) ==
  LET d == decode_varint64(buffer, pos) IN
  [err |-> d.err, pos |-> d.offset,
   val |-> IF d.err = "" THEN zigzag_decode64(d.value) ELSE {}]

Reader_bool(buffer, pos) ==
  LET d == decode_varint32(buffer, pos) IN
  [err |-> d.err, pos |-> d.offset,
   val |-> IF d.err = "" THEN d.value # {} ELSE FALSE]

\* The fixed-width methods: n little-endian bytes.
read_fixed(buffer, pos, n) ==
  IF pos + n > Len(buffer)
    THEN [err |-> EndOfBuffer, pos |-> pos, val |-> {}]
    ELSE [err |-> "", pos |-> pos + n,
          val |-> from_le_bytes(SubSeq(buffer, pos + 1, pos + n))]

Reader_fixed32(buffer, pos) == read_fixed(buffer, pos, 4)

Reader_sfixed32(buffer, pos) == read_fixed(buffer, pos, 4)

Reader_fixed64(buffer, pos) == read_fixed(buffer, pos, 8)

Reader_sfixed64(buffer, pos) == read_fixed(buffer, pos, 8)

Reader_float(buffer, pos) ==
  LET r == read_fixed(buffer, pos, 4) IN
  [r EXCEPT !.val = IF r.err = "" THEN f32_as_f64(r.val) ELSE {}]

Reader_double(buffer, pos) == read_fixed(buffer, pos, 8)

Reader_bytes(buffer, pos) ==
  LET d == decode_varint32(buffer, pos) IN
  IF d.err # ""
    THEN [err |-> d.err, pos |-> d.offset, val |-> <<>>]
    ELSE IF usize_add_gt(d.offset, d.value, Len(buffer))
      THEN [err |-> EndOfBuffer, pos |-> d.offset, val |-> <<>>]
      ELSE LET len == NatOf(d.value) IN
           [err |-> "", pos |-> d.offset + len,
            val |-> SubSeq(buffer, d.offset + 1, d.offset + len)]

\* A string() that moves the cursor past the payload only when it is valid.
Reader_string_valid_first(buffer, pos) ==
  LET d == decode_varint32(buffer, pos) IN
  IF d.err # ""
    THEN [err |-> d.err, pos |-> d.offset, val |-> <<>>]
    ELSE IF usize_add_gt(d.offset, d.value, Len(buffer))
      THEN [err |-> EndOfBuffer, pos |-> d.offset, val |-> <<>>]
      ELSE LET len == NatOf(d.value)
               str_bytes == SubSeq(buffer, d.offset + 1, d.offset + len)
           IN IF utf8_valid(str_bytes)
                THEN [err |-> "", pos |-> d.offset + len, val |-> str_bytes]
                ELSE [err |-> InvalidUtf8, pos |-> d.offset, val |-> <<>>]

Reader_string(buffer, pos) ==
  LET d == decode_varint32(buffer, pos) IN
  IF d.err # ""
    THEN [err |-> d.err, pos |-> d.offset, val |-> <<>>]
    ELSE IF usize_add_gt(d.offset, d.value, Len(buffer))
      THEN [err |-> EndOfBuffer, pos |-> d.offset, val |-> <<>>]
      ELSE LET len == NatOf(d.value)
               str_bytes == SubSeq(buffer, d.offset + 1, d.offset + len)
           IN IF utf8_valid(str_bytes)
                THEN [err |-> "", pos |-> d.offset + len, val |-> str_bytes]
                ELSE [err |-> InvalidUtf8, pos |-> d.offset + len, val |-> <<>>]

\* A skip() that tests the cursor before the skip, not after it.
Reader_skip_late_check(buffer, pos, length) ==
  IF ~(length \subseteq 0..23) \/ pos > Len(buffer)
    THEN [err |-> EndOfBuffer, pos |-> pos, val |-> {}]
    ELSE [err |-> "", pos |-> pos + NatOf(length), val |-> {}]

Reader_skip(buffer, pos, length) ==
  IF usize_add_gt(pos, length, Len(buffer))
    THEN [err |-> EndOfBuffer, pos |-> pos, val |-> {}]
    ELSE [err |-> "", pos |-> pos + NatOf(length), val |-> {}]

Reader_skip_type(buffer, pos, wire_type) ==
  LET wt == WireType_from_u8(as_u8(wire_type)) IN
  IF wt = {} THEN [err |-> InvalidWireType, pos |-> pos, val |-> {}]
  ELSE IF wt = {WT_Varint}
    THEN LET d == decode_varint64(buffer, pos) IN
         [err |-> d.err, pos |-> d.offset, val |-> {}]
  ELSE IF wt = {WT_Fixed64}
    THEN IF pos + 8 > Len(buffer)
           THEN [err |-> EndOfBuffer, pos |-> pos, val |-> {}]
           ELSE [err |-> "", pos |-> pos + 8, val |-> {}]
  ELSE IF wt = {WT_LengthDelimited}
    THEN LET d == decode_varint32(buffer, pos) IN
         IF d.err # "" THEN [err |-> d.err, pos |-> d.offset, val |-> {}]
         ELSE IF usize_add_gt(d.offset, d.value, Len(buffer))
           THEN [err |-> EndOfBuffer, pos |-> d.offset, val |-> {}]
           ELSE [err |-> "", pos |-> d.offset + NatOf(d.value), val |-> {}]
  ELSE IF wt = {WT_Fixed32}
    THEN IF pos + 4 > Len(buffer)
           THEN [err |-> EndOfBuffer, pos |-> pos, val |-> {}]
           ELSE [err |-> "", pos |-> pos + 4, val |-> {}]
  ELSE [err |-> NoGroups, pos |-> pos, val |-> {}]

----------------------------------------------------------------------------
(* Inputs of the Writer's methods *)

MaxCalls == 4
MaxForks == 3
MaxWrites == 3
BigPayload == 128

AllOnes(w) == 0..(w - 1)
F64One == {52, 53, 54, 55, 56, 57, 58, 59, 60, 61}

In_uint32  == {BitsOf(1), BitsOf(300)}
In_int32   == {AllOnes(32)}
In_sint32  == {AllOnes(32), BitsOf(150)}
In_uint64  == {BitsOf(1)}
In_int64   == {AllOnes(64)}
In_sint64  == {AllOnes(64)}
In_fixed32 == {BitsOf(1)}
In_fixed64 == {BitsOf(1)}
In_float   == {F64One}
In_double  == {F64One}
In_bytes   == {<<>>, [i \in 1..BigPayload |-> 7]}
In_string  == {<<>>, <<233>>}

ReaderIdle ==
  /\ r_buffer = <<>>
  /\ r_pos = 0
  /\ r_ret = [op |-> "new", arg |-> {}, err |-> "", val |-> {}, prev |-> 0]

\* One more call of a Writer method, while the bound allows it.
Called ==
  /\ n_calls < MaxCalls
  /\ n_calls' = n_calls + 1
  /\ UNCHANGED <<n_writes, call, result, r_buffer, r_pos, r_ret>>

W_uint32   == \E v \in In_uint32  : Called /\ Encode("uint32", Writer_uint32(v))
W_int32    == \E v \in In_int32   : Called /\ Encode("int32", Writer_int32(v))
W_sint32   == \E v \in In_sint32  : Called /\ Encode("sint32", Writer_sint32(v))
W_uint64   == \E v \in In_uint64  : Called /\ Encode("uint64", Writer_uint64(v))
W_int64    == \E v \in In_int64   : Called /\ Encode("int64", Writer_int64(v))
W_sint64   == \E v \in In_sint64  : Called /\ Encode("sint64", Writer_sint64(v))
W_bool     == \E v \in BOOLEAN    : Called /\ Encode("bool", Writer_bool(v))
W_fixed32  == \E v \in In_fixed32 : Called /\ Encode("fixed32", Writer_fixed32(v))
W_sfixed32 == \E v \in In_fixed32 : Called /\ Encode("sfixed32", Writer_sfixed32(v))
W_fixed64  == \E v \in In_fixed64 : Called /\ Encode("fixed64", Writer_fixed64(v))
W_sfixed64 == \E v \in In_fixed64 : Called /\ Encode("sfixed64", Writer_sfixed64(v))
W_float    == \E v \in In_float   : Called /\ Encode("float", Writer_float(v))
W_double   == \E v \in In_double  : Called /\ Encode("double", Writer_double(v))
W_bytes    == \E v \in In_bytes   : Called /\ Encode("bytes", Writer_bytes(v))
W_string   == \E v \in In_string  : Called /\ Encode("string", Writer_string(v))
W_fork     == Called /\ Fork
W_ldelim   == Called /\ Ldelim
W_finish   == Called /\ Finish
W_reset    == Called /\ Reset

InitWriter == WriterInit /\ CodecInit /\ ReaderIdle

NextWriter ==
  \/ W_uint32 \/ W_int32 \/ W_sint32 \/ W_uint64 \/ W_int64 \/ W_sint64
  \/ W_bool \/ W_fixed32 \/ W_sfixed32 \/ W_fixed64 \/ W_sfixed64
  \/ W_float \/ W_double \/ W_bytes \/ W_string
  \/ W_fork \/ W_ldelim \/ W_finish \/ W_reset

SpecWriter == InitWriter /\ [][NextWriter]_vars

\* Nested messages: forks, payload writes (one byte, or a length-delimited
\* field long enough for a two-byte length) and ldelims, each bounded apart.
NestedOther == UNCHANGED <<n_calls, call, result, r_buffer, r_pos, r_ret>>

N_fork ==
  /\ h_forks < MaxForks
  /\ Fork
  /\ UNCHANGED n_writes
  /\ NestedOther

N_uint32 ==
  \E v \in {BitsOf(1)} :
    /\ n_writes < MaxWrites
    /\ n_writes' = n_writes + 1
    /\ Encode("uint32", Writer_uint32(v))
    /\ NestedOther

N_bytes ==
  \E v \in {[i \in 1..BigPayload |-> 7]} :
    /\ n_writes < MaxWrites
    /\ n_writes' = n_writes + 1
    /\ Encode("bytes", Writer_bytes(v))
    /\ NestedOther

N_ldelim ==
  /\ Ldelim
  /\ UNCHANGED n_writes
  /\ NestedOther

NextNested == N_fork \/ N_uint32 \/ N_bytes \/ N_ldelim

SpecNested == InitWriter /\ [][NextNested]_vars

----------------------------------------------------------------------------
(* The codec's functions as steps *)

CodecOther ==
  UNCHANGED <<w_buffer, w_stack, w_ret, h_levels, h_last, h_forks, h_ldelims,
              n_calls, n_writes, r_buffer, r_pos, r_ret>>

C_encode_varint32 == Call_encode_varint32 /\ CodecOther
C_encode_varint64 == Call_encode_varint64 /\ CodecOther
C_decode_varint32 == Call_decode_varint32 /\ CodecOther
C_decode_varint64 == Call_decode_varint64 /\ CodecOther
C_zigzag_encode32 == Call_zigzag_encode32 /\ CodecOther
C_zigzag_encode64 == Call_zigzag_encode64 /\ CodecOther
C_zigzag_decode32 == Call_zigzag_decode32 /\ CodecOther
C_zigzag_decode64 == Call_zigzag_decode64 /\ CodecOther

InitCodec == CodecInit /\ WriterInit /\ ReaderIdle

NextCodec ==
  \/ C_encode_varint32 \/ C_encode_varint64
  \/ C_decode_varint32 \/ C_decode_varint64
  \/ C_zigzag_encode32 \/ C_zigzag_encode64
  \/ C_zigzag_decode32 \/ C_zigzag_decode64

SpecCodec == InitCodec /\ [][NextCodec]_vars

----------------------------------------------------------------------------
(* The Reader's methods as steps, on buffers a caller may hand it *)

MaxRun == 11
MaxTail == 2

\* n bytes with the continuation bit set and no payload bits.
Run(n) == [i \in 1..n |-> 128]

SeqsUpTo(S, k) == UNION {[1..n -> S] : n \in 0..k}

TailBytes == {1, 65, 195}

Tails ==
  SeqsUpTo(TailBytes, MaxTail)
    \cup {<<127>>, <<2, 195, 169>>, <<2, 195, 65>>, <<3, 65, 65>>, <<172, 2>>}

ReaderBuffers == {Run(n) \o t : n \in 0..MaxRun, t \in Tails}

In_skip == {BitsOf(1), BitsOf(3), AllOnes(32)}
In_wire_type == {BitsOf(k) : k \in 0..6} \cup {BitsOf(256), BitsOf(261)}
In_tag_wire == {BitsOf(5), BitsOf(6), BitsOf(256)}
In_field == {BitsOf(1)}
In_tag == {BitsOf(8), BitsOf(14)}

ReaderInit ==
  /\ r_buffer \in ReaderBuffers
  /\ r_pos = 0
  /\ r_ret = [op |-> "new", arg |-> {}, err |-> "", val |-> {}, prev |-> 0]

ReaderOther ==
  UNCHANGED <<call, result, w_buffer, w_stack, w_ret, h_levels, h_last,
              h_forks, h_ldelims, n_calls, n_writes>>

\* A Reader method was called with the cursor at r_pos.
Read(op, arg, res) ==
  /\ r_pos' = res.pos
  /\ r_ret' = [op |-> op, arg |-> arg, err |-> res.err, val |-> res.val,
               prev |-> r_pos]
  /\ UNCHANGED r_buffer
  /\ ReaderOther

R_uint32   == Read("uint32", {}, Reader_uint32(r_buffer, r_pos))
R_int32    == Read("int32", {}, Reader_int32(r_buffer, r_pos))
R_sint32   == Read("sint32", {}, Reader_sint32(r_buffer, r_pos))
R_uint64   == Read("uint64", {}, Reader_uint64(r_buffer, r_pos))
R_int64    == Read("int64", {}, Reader_int64(r_buffer, r_pos))
R_sint64   == Read("sint64", {}, Reader_sint64(r_buffer, r_pos))
R_bool     == Read("bool", {}, Reader_bool(r_buffer, r_pos))
R_fixed32  == Read("fixed32", {}, Reader_fixed32(r_buffer, r_pos))
R_sfixed32 == Read("sfixed32", {}, Reader_sfixed32(r_buffer, r_pos))
R_fixed64  == Read("fixed64", {}, Reader_fixed64(r_buffer, r_pos))
R_sfixed64 == Read("sfixed64", {}, Reader_sfixed64(r_buffer, r_pos))
R_float    == Read("float", {}, Reader_float(r_buffer, r_pos))
R_double   == Read("double", {}, Reader_double(r_buffer, r_pos))
R_bytes    == Read("bytes", {}, Reader_bytes(r_buffer, r_pos))
R_string   == Read("string", {}, Reader_string(r_buffer, r_pos))
R_skip     == \E n \in In_skip : Read("skip", n, Reader_skip(r_buffer, r_pos, n))
R_skip_type ==
  \E w \in In_wire_type : Read("skip_type", w, Reader_skip_type(r_buffer, r_pos, w))

\* The tag functions, called between the Reader's methods.
T_encode_tag ==
  \E f \in In_field, w \in In_tag_wire :
    LET res == encode_tag(f, w) IN
    /\ r_ret' = [op |-> "encode_tag", arg |-> w, err |-> res.err, val |-> res.val,
                 prev |-> r_pos]
    /\ UNCHANGED <<r_buffer, r_pos>>
    /\ ReaderOther

T_decode_tag ==
  \E t \in In_tag :
    /\ r_ret' = [op |-> "decode_tag", arg |-> t, err |-> "", val |-> decode_tag(t),
                 prev |-> r_pos]
    /\ UNCHANGED <<r_buffer, r_pos>>
    /\ ReaderOther

InitReader == ReaderInit /\ CodecInit /\ WriterInit

NextReader ==
  \/ R_uint32 \/ R_int32 \/ R_sint32 \/ R_uint64 \/ R_int64 \/ R_sint64
  \/ R_bool \/ R_fixed32 \/ R_sfixed32 \/ R_fixed64 \/ R_sfixed64
  \/ R_float \/ R_double \/ R_bytes \/ R_string
  \/ R_skip \/ R_skip_type \/ T_encode_tag \/ T_decode_tag

SpecReader == InitReader /\ [][NextReader]_vars

----------------------------------------------------------------------------
(* Properties *)

TypedOps ==
  {"uint32", "int32", "sint32", "uint64", "int64", "sint64", "bool",
   "fixed32", "sfixed32", "fixed64", "sfixed64", "float", "double",
   "bytes", "string"}

Varint32Ops == {"uint32", "sint32", "bool"}
Varint64Ops == {"int32", "uint64", "int64", "sint64"}

ReaderOp(op, buffer, pos) ==
  CASE op = "uint32"   -> Reader_uint32(buffer, pos)
    [] op = "int32"    -> Reader_int32(buffer, pos)
    [] op = "sint32"   -> Reader_sint32(buffer, pos)
    [] op = "uint64"   -> Reader_uint64(buffer, pos)
    [] op = "int64"    -> Reader_int64(buffer, pos)
    [] op = "sint64"   -> Reader_sint64(buffer, pos)
    [] op = "bool"     -> Reader_bool(buffer, pos)
    [] op = "fixed32"  -> Reader_fixed32(buffer, pos)
    [] op = "sfixed32" -> Reader_sfixed32(buffer, pos)
    [] op = "fixed64"  -> Reader_fixed64(buffer, pos)
    [] op = "sfixed64" -> Reader_sfixed64(buffer, pos)
    [] op = "float"    -> Reader_float(buffer, pos)
    [] op = "double"   -> Reader_double(buffer, pos)
    [] op = "bytes"    -> Reader_bytes(buffer, pos)
    [] op = "string"   -> Reader_string(buffer, pos)

\* The buffer, with the empty placeholders of the open frames, as the
\* history has it up to level k.
RECURSIVE Flat(_, _)
Flat(levels, k) ==
  IF k = 1 THEN levels[1].bytes
  ELSE Flat(levels, k - 1) \o Placeholder \o levels[k].bytes

\* C1: a successful ldelim() leaves the bytes before the fork as they were
\* and puts, in place of the placeholder, the minimal varint of the number N
\* of payload bytes written since the fork, followed by those N bytes; a
\* Reader at the fork offset reads exactly that payload with bytes() and
\* ends just past it.
C1_ForkFinalizeExact ==
  (w_ret.op = "ldelim" /\ w_ret.err = "") =>
    LET N == Len(h_last.payload) IN
    /\ h_last.at >= 0
    /\ SubSeq(w_buffer, 1, h_last.at) = h_last.before
    /\ w_buffer = h_last.before \o MinVarint(N) \o h_last.payload
    /\ Reader_bytes(w_buffer, h_last.at) =
         [err |-> "", pos |-> Len(w_buffer), val |-> h_last.payload]

\* C1's case: a frame with a payload of at least 128 bytes (a two-byte
\* length) was finalized while another frame is still open.
C1_Witness ==
  /\ w_ret.op = "ldelim" /\ w_ret.err = ""
  /\ Len(h_last.payload) >= 128
  /\ w_stack # <<>>
  /\ h_last.before # <<>>

\* C2: whatever the nesting, the buffer is what the history says: every
\* finalized frame is the minimal varint of the length of its payload
\* followed by that payload, and every frame still open keeps offsets that
\* point at its own placeholder, with the bytes before it untouched.
C2_NestedForkIndependence ==
  /\ w_ret.err # Panic
  /\ Len(w_stack) = Len(h_levels) - 1
  /\ w_buffer = Flat(h_levels, Len(h_levels))
  /\ \A i \in 1..Len(w_stack) :
       LET fork_pos == w_stack[i][1]
           head_pos == w_stack[i][2]
       IN /\ fork_pos = Len(h_levels[i + 1].before)
          /\ head_pos = fork_pos + 5
          /\ head_pos <= Len(w_buffer)
          /\ SubSeq(w_buffer, 1, fork_pos) = h_levels[i + 1].before
          /\ SubSeq(w_buffer, fork_pos + 1, head_pos) = Placeholder
          /\ (i > 1 => fork_pos >= w_stack[i - 1][2])

\* C2's case: three frames nested in one another, one payload byte written
\* in each, all three finalized.
C2_Witness ==
  /\ w_stack = <<>>
  /\ h_forks = 3 /\ h_ldelims = 3
  /\ w_buffer = <<5, 1, 3, 1, 1, 1>>

\* Bytes to complete a truncated buffer with: the end of a varint, a payload
\* byte, the second byte of a two-byte character.
ProbeBytes == {1, 65, 169}

\* The method fails for want of exactly one byte: with one more byte it
\* succeeds and consumes the buffer to its end.
OneByteShort(op, buffer, pos) ==
  \E b \in ProbeBytes :
    LET r == ReaderOp(op, buffer \o <<b>>, pos) IN
    r.err = "" /\ r.pos = Len(buffer) + 1

\* C3: a typed decode on a buffer one byte short of what it needs fails
\* with "Unexpected end of buffer" and leaves the cursor where it was.
C3_UnderrunKeepsCursor ==
  (r_ret.op \in TypedOps /\ OneByteShort(r_ret.op, r_buffer, r_ret.prev)) =>
    (r_ret.err = EndOfBuffer /\ r_pos = r_ret.prev)

\* The number of bytes of the minimal encoding: max(1, ceil(bitlength / 7)).
MinLen(v) ==
  IF v = {} THEN 1
  ELSE LET top == CHOOSE i \in v : \A j \in v : j <= i IN (top + 7) \div 7

WellFormedVarint(bytes, v) ==
  /\ Len(bytes) = MinLen(v)
  /\ \A i \in 1..(Len(bytes) - 1) : bytes[i] >= 128
  /\ bytes[Len(bytes)] < 128

\* C4: the encoding of v has the minimal length, the continuation bit on
\* every byte but the last, and decodes from offset 0 to v, all of it consumed.
C4_VarintRoundTrip ==
  /\ call.fn \in {"encode_varint32", "encode_varint64"} =>
       WellFormedVarint(result, call.arg)
  /\ call.fn \in {"decode_varint32", "decode_varint64"} =>
       /\ WellFormedVarint(call.arg, call.origin)
       /\ result = [err |-> "", offset |-> Len(call.arg), value |-> call.origin]

\* C4's case: 2^64 - 1 was encoded in ten bytes and decoded.
C4_Witness ==
  /\ call.fn = "decode_varint64"
  /\ call.origin = AllOnes(64)
  /\ Len(call.arg) = 10
  /\ result.err = ""

\* C5: zigzag decoding undoes zigzag encoding, at both widths.
C5_ZigzagBijection ==
  call.fn \in {"zigzag_decode32", "zigzag_decode64"} => result = call.origin

\* C5's case: the minimum i32 went through both functions.
C5_Witness ==
  /\ call.fn = "zigzag_decode32"
  /\ call.origin = {31}
  /\ call.arg = AllOnes(32)

\* The six known wire-type codes, as u32 arguments.
KnownCodes == {BitsOf(k) : k \in 0..5}

\* C6: a wire-type argument that is none of the codes 0..5 makes encode_tag
\* fail with "Invalid wire type", and skip_type too, the cursor unmoved.
C6_InvalidWireTypeRejected ==
  /\ (r_ret.op = "encode_tag" /\ r_ret.arg \notin KnownCodes) =>
       r_ret.err = InvalidWireType
  /\ (r_ret.op = "skip_type" /\ r_ret.arg \notin KnownCodes) =>
       (r_ret.err = InvalidWireType /\ r_pos = r_ret.prev)

\* C7: the stack holds as many frames as fork() calls minus successful
\* ldelim() calls since construction or the last reset(); ldelim() removes
\* exactly the top frame when there is one, and otherwise fails with "No fork
\* to delimit" and changes neither the buffer nor the stack.
C7_FrameCount ==
  /\ [](Len(w_stack) = h_forks - h_ldelims)
  /\ [][w_ret'.op = "ldelim" =>
          IF h_forks - h_ldelims > 0
            THEN /\ w_ret'.err = ""
                 /\ w_stack' = SubSeq(w_stack, 1, Len(w_stack) - 1)
                 /\ Len(w_stack') = Len(w_stack) - 1
            ELSE /\ w_ret'.err = NoFork
                 /\ w_buffer' = w_buffer
                 /\ w_stack' = w_stack]_vars

\* C7's case: after a fork and its ldelim, a second ldelim failed.
C7_Witness ==
  /\ w_ret.op = "ldelim" /\ w_ret.err = NoFork
  /\ h_forks = 1 /\ h_ldelims = 1
  /\ w_buffer # <<>>

\* C8: the cursor stays within the buffer and never moves back, whether
\* the method succeeds or fails, and the buffer is never changed.
C8_CursorInvariant ==
  /\ [](r_pos >= 0 /\ r_pos <= Len(r_buffer) /\ r_pos >= r_ret.prev)
  /\ [][r_pos' >= r_pos /\ r_buffer' = r_buffer]_vars

\* C8's case: a method failed after it had moved the cursor to the end.
C8_Witness ==
  /\ r_ret.op \in TypedOps \cup {"skip", "skip_type"}
  /\ r_ret.err # ""
  /\ r_pos > r_ret.prev
  /\ r_pos = Len(r_buffer)

\* The k bytes at pos all have the continuation bit set.
ContRun(buffer, pos, k) ==
  /\ pos + k <= Len(buffer)
  /\ \A i \in 1..k : buffer[pos + i] >= 128

\* C9: a 32-bit decode that starts at 5 bytes with the continuation bit
\* set (a 64-bit one: at 10) fails with "Varint too long", whatever follows.
C9_MalformedVarintGuard ==
  /\ (r_ret.op \in Varint32Ops /\ ContRun(r_buffer, r_ret.prev, 5)) =>
       r_ret.err = TooLong
  /\ (r_ret.op \in Varint64Ops /\ ContRun(r_buffer, r_ret.prev, 10)) =>
       r_ret.err = TooLong

\* pos is not past the end of a payload of len bytes that starts at start.
NotPast(pos, start, len) ==
  IF len \subseteq 0..23 THEN pos <= start + NatOf(len) ELSE TRUE

\* C10: string() on a length L with L bytes behind it that are not
\* well-formed UTF-8 fails with "Invalid UTF-8 string" and leaves the cursor
\* behind the L bytes, where a successful call leaves it; with fewer than L
\* bytes it fails with "Unexpected end of buffer", the cursor not past the
\* payload.
C10_StringSkipsPayload ==
  r_ret.op = "string" =>
    LET d == decode_varint32(r_buffer, r_ret.prev) IN
    d.err = "" =>
      IF usize_add_gt(d.offset, d.value, Len(r_buffer))
        THEN /\ r_ret.err = EndOfBuffer
             /\ NotPast(r_pos, d.offset, d.value)
        ELSE LET L == NatOf(d.value)
                 payload == SubSeq(r_buffer, d.offset + 1, d.offset + L)
             IN /\ r_pos = d.offset + L
                /\ r_ret.err = IF utf8_valid(payload) THEN "" ELSE InvalidUtf8

\* C10's case: string() failed on two bytes that are not UTF-8, away from
\* the start of the buffer.
C10_Witness ==
  /\ r_ret.op = "string"
  /\ r_ret.err = InvalidUtf8
  /\ r_ret.prev > 0
  /\ r_pos = r_ret.prev + 3

\* The exact integer sum over i of (b_i & 0x7F) * 2^(7i) of the bytes
\* b_0 .. b_(k-1) that lie between from and to, as the set of the positions
\* of its one bits: the 7-bit groups do not overlap, so the sum has no carry
\* and no width.
ExactValue(buffer, from, to) ==
  UNION {{7 * i + j : j \in BitsOf(buffer[from + i + 1]) \cap (0..6)} :
           i \in 0..(to - from - 1)}

\* C11: a varint decode that succeeds returns the exact value of the bytes
\* it consumed: every set payload bit of every consumed byte, the 5th of a
\* 32-bit decode and the 10th of a 64-bit one included, is in the result, so
\* an encoding of a value that does not fit the width is not accepted.
C11_NoSilentOverflow ==
  (r_ret.op \in {"uint32", "uint64"} /\ r_ret.err = "") =>
    /\ r_ret.val = ExactValue(r_buffer, r_ret.prev, r_pos)
    /\ ExactValue(r_buffer, r_ret.prev, r_pos) \subseteq
         (IF r_ret.op = "uint32" THEN 0..31 ELSE 0..63)

====
